---------------------------- MODULE Spec2Model ----------------------------
(***************************************************************************)
(* A model of octodns-digitalocean: the DigitalOcean client (paginated     *)
(* reader, domain bootstrap, record create/delete), the provider's zone    *)
(* cache, populate, the record translators and _apply.                     *)
(*                                                                         *)
(* Text values that the code edits (appending ".", escaping ";", slicing   *)
(* the zone name) are sequences of tokens; names and types, which the code *)
(* only compares, are strings.                                             *)
(***************************************************************************)
EXTENDS Integers, Sequences, FiniteSets, TLC

VARIABLES
    cache,      \* DigitalOceanProvider._zone_records: zone name -> wire rows
    pc,         \* position of the running call: the request it is about to issue
    op,         \* the running (or last) call: "none", "populate", "apply"
    plan,       \* plan.changes of the running apply
    cur,        \* index in plan of the change being applied (0: ensure-domain)
    todo,       \* record requests still to issue for the current loop
    scans,      \* per change, what zone_records returned to _apply_Delete
    reader,     \* locals of DigitalOceanClient.records: [for, page, ret]
    listing,    \* the rows the provider serves the running listing from
    calls,      \* the requests of the running (or last) call and their answers
    result,     \* outcome of the last finished call
    prev,       \* the call before the running (or last) one, and how it ended
    rt          \* state of the translator round trip: [stage, g, wire, back]

vars == <<cache, pc, op, plan, cur, todo, scans, reader, listing, calls,
          result, prev, rt>>

-----------------------------------------------------------------------------
(* Bounds of the model *)

\* changes per plan
MaxChanges == 2
\* rows the provider returns per page of a listing
PageSize == 2
\* values per record of the translator round trip
MaxValues == 2

-----------------------------------------------------------------------------
(* Sequence helpers *)

RECURSIVE Flatten(_)
Flatten(ss) == IF ss = <<>> THEN <<>> ELSE Head(ss) \o Flatten(Tail(ss))

Range(s) == {s[i] : i \in 1..Len(s)}

\* how often x occurs in s
Count(s, x) == Cardinality({i \in 1..Len(s) : s[i] = x})

\* equal as multisets: equal modulo the order of the elements
SameModuloOrder(s, t) ==
    /\ Len(s) = Len(t)
    /\ \A x \in Range(s) \cup Range(t) : Count(s, x) = Count(t, x)

-----------------------------------------------------------------------------
(* Record translators, wire rows -> generic data: the _data_for_ methods *)

SUPPORTS == {"A", "AAAA", "CAA", "CNAME", "MX", "NS", "TXT", "SRV"}

\* f'{data}.'
Dot(data) == data \o <<".">>

RECURSIVE Escape(_)
\* str.replace(';', '\\;')
Escape(s) ==
    IF s = <<>> THEN <<>>
    ELSE IF Head(s) = ";" THEN <<"\\", ";">> \o Escape(Tail(s))
    ELSE <<Head(s)>> \o Escape(Tail(s))

\* a faulty variant: every backslash is removed
Unescape_all(s) == SelectSeq(s, LAMBDA t : t # "\\")

RECURSIVE Unescape(_)
\* str.replace('\\;', ';')
Unescape(s) ==
    IF s = <<>> THEN <<>>
    ELSE IF Len(s) >= 2 /\ s[1] = "\\" /\ s[2] = ";"
         THEN <<";">> \o Unescape(SubSeq(s, 3, Len(s)))
    ELSE <<Head(s)>> \o Unescape(Tail(s))

data_for_multiple(type, records) ==
    [ttl |-> records[1].ttl, type |-> type,
     values |-> [i \in 1..Len(records) |-> records[i].data]]

data_for_CAA(type, records) ==
    [ttl |-> records[1].ttl, type |-> type,
     values |-> [i \in 1..Len(records) |->
                    [flags |-> records[i].flags, tag |-> records[i].tag,
                     value |-> records[i].data]]]

data_for_CNAME(type, records) ==
    [ttl |-> records[1].ttl, type |-> type, value |-> Dot(records[1].data)]

data_for_MX(type, records) ==
    [ttl |-> records[1].ttl, type |-> type,
     values |-> [i \in 1..Len(records) |->
                    [preference |-> records[i].priority,
                     exchange |-> Dot(records[i].data)]]]

data_for_NS(type, records) ==
    [ttl |-> records[1].ttl, type |-> type,
     values |-> [i \in 1..Len(records) |-> Dot(records[i].data)]]

\* a faulty variant: the "." of a null target gets a "." like any other
SRVTarget_always(data) == data \o <<".">>

\* f'{record["data"]}.' if record['data'] != "." else "."
SRVTarget(data) == IF data # <<".">> THEN Dot(data) ELSE <<".">>

data_for_SRV(type, records) ==
    [type |-> type, ttl |-> records[1].ttl,
     values |-> [i \in 1..Len(records) |->
                    [port |-> records[i].port, priority |-> records[i].priority,
                     target |-> SRVTarget(records[i].data),
                     weight |-> records[i].weight]]]

\* a faulty variant: the semicolons are not escaped
data_for_TXT_raw(type, records) ==
    [ttl |-> records[1].ttl, type |-> type,
     values |-> [i \in 1..Len(records) |-> records[i].data]]

data_for_TXT(type, records) ==
    [ttl |-> records[1].ttl, type |-> type,
     values |-> [i \in 1..Len(records) |-> Escape(records[i].data)]]

\* getattr(self, f'_data_for_{_type}')
data_for(type, records) ==
    CASE type \in {"A", "AAAA"} -> data_for_multiple(type, records)
      [] type = "CAA"   -> data_for_CAA(type, records)
      [] type = "CNAME" -> data_for_CNAME(type, records)
      [] type = "MX"    -> data_for_MX(type, records)
      [] type = "NS"    -> data_for_NS(type, records)
      [] type = "SRV"   -> data_for_SRV(type, records)
      [] type = "TXT"   -> data_for_TXT(type, records)

-----------------------------------------------------------------------------
(* Record translators, generic record -> wire params: the _params_for_ methods *)

params_for_multiple(record) ==
    [i \in 1..Len(record.values) |->
        [data |-> record.values[i], name |-> record.name,
         ttl |-> record.ttl, type |-> record.type]]

params_for_CAA(record) ==
    [i \in 1..Len(record.values) |->
        [data |-> record.values[i].value, flags |-> record.values[i].flags,
         name |-> record.name, tag |-> record.values[i].tag,
         ttl |-> record.ttl, type |-> record.type]]

params_for_single(record) ==
    << [data |-> record.value, name |-> record.name,
        ttl |-> record.ttl, type |-> record.type] >>

params_for_MX(record) ==
    [i \in 1..Len(record.values) |->
        [data |-> record.values[i].exchange, name |-> record.name,
         priority |-> record.values[i].preference,
         ttl |-> record.ttl, type |-> record.type]]

params_for_SRV(record) ==
    [i \in 1..Len(record.values) |->
        [data |-> record.values[i].target, name |-> record.name,
         port |-> record.values[i].port, priority |-> record.values[i].priority,
         ttl |-> record.ttl, type |-> record.type,
         weight |-> record.values[i].weight]]

params_for_TXT(record) ==
    [i \in 1..Len(record.values) |->
        [data |-> Unescape(record.values[i]), name |-> record.name,
         ttl |-> record.ttl, type |-> record.type]]

\* getattr(self, f'_params_for_{new._type}')
params_for(record) ==
    CASE record.type \in {"A", "AAAA", "NS"} -> params_for_multiple(record)
      [] record.type = "CAA"   -> params_for_CAA(record)
      [] record.type = "CNAME" -> params_for_single(record)
      [] record.type = "MX"    -> params_for_MX(record)
      [] record.type = "SRV"   -> params_for_SRV(record)
      [] record.type = "TXT"   -> params_for_TXT(record)

\* Record.new(zone, name, data): the generic record of a name and its data
NewRecord(name, data) == [name |-> name] @@ data

-----------------------------------------------------------------------------
(* The zone and the plans *)

\* zone.name, with its trailing dot
ZoneName == <<"unit.tests", ".">>

\* zone.name[:-1], desired.name[:-1]
DomainName(zone_name) == SubSeq(zone_name, 1, Len(zone_name) - 1)

\* the placeholder address that domain creation must carry
SentinelIP == <<"192.0.2.1">>

RecApex == [name |-> "", type |-> "A", ttl |-> 300,
            values |-> << <<"1.2.3.4">>, <<"1.2.3.5">> >>]
RecWww == [name |-> "www", type |-> "A", ttl |-> 300,
           values |-> << <<"1.2.3.4">>, <<"2.2.3.4">> >>]
RecWwwNew == [name |-> "www", type |-> "A", ttl |-> 600,
              values |-> << <<"3.2.3.4">> >>]
RecCname == [name |-> "cname", type |-> "CNAME", ttl |-> 300,
             value |-> <<"unit.tests", ".">>]

\* the changes a plan is made of: Create{new}, Update{existing, new}, Delete{existing}
Changes ==
    { [class |-> "Create", new |-> RecApex],
      [class |-> "Create", new |-> RecCname],
      [class |-> "Delete", existing |-> RecWww],
      [class |-> "Update", existing |-> RecWww, new |-> RecWwwNew] }

-----------------------------------------------------------------------------
(* The provider's side.  The provider is not part of the program and other
   clients change it too: it answers every request with a status of its
   choice, and every listing from rows of its choice. *)

\* the rows of a domain in use: an apex NS row, two rows of www/A, and a
\* row of a type the program does not support, whose data is the apex
ExistingRows ==
    << [id |-> 1, name |-> "@", type |-> "NS", data |-> <<"ns1.digitalocean.com">>, ttl |-> 1800],
       [id |-> 2, name |-> "www", type |-> "A", data |-> <<"1.2.3.4">>, ttl |-> 300],
       [id |-> 3, name |-> "www", type |-> "A", data |-> <<"2.2.3.4">>, ttl |-> 300],
       [id |-> 4, name |-> "@", type |-> "SOA", data |-> <<"@">>, ttl |-> 1800] >>

\* the rows of a domain just created: the provider's NS row and the apex A
\* row of the address given at creation
CreatedRows ==
    << [id |-> 5, name |-> "@", type |-> "NS", data |-> <<"ns1.digitalocean.com">>, ttl |-> 1800],
       [id |-> 6, name |-> "@", type |-> "A", data |-> SentinelIP, ttl |-> 3600] >>

\* what a listing may be served from; <<>> is a domain without rows
Snapshots == {<<>>, ExistingRows, CreatedRows}

\* a request fails with 401, 404 or 502, or succeeds
Faults == {"none", "401", "404", "502"}

\* the status code of the response
Status(fault, method) ==
    CASE fault = "401" -> 401
      [] fault = "404" -> 404
      [] fault = "502" -> 502
      [] fault = "none" /\ method = "GET" -> 200
      [] fault = "none" /\ method = "POST" -> 201
      [] fault = "none" /\ method = "DELETE" -> 204

Min(a, b) == IF a < b THEN a ELSE b

\* what the provider sends as links.pages: a JSON object, as documented,
\* or a value that is no object (null)
Shapes == {"object", "null"}

\* the links of page `page` of n rows: "pages" exists if there is more than
\* one page, and "last" does not exist on the last page.  The member json
\* of pages is the JSON type of the value, not a key of it.
LinksOf(page, n, shape) ==
    IF shape = "null" THEN [pages |-> [json |-> "null"]]
    ELSE IF n <= PageSize THEN <<>>
    ELSE IF page * PageSize < n
         THEN [pages |-> [json |-> "object", next |-> page + 1,
                          last |-> (n + PageSize - 1) \div PageSize]]
         ELSE [pages |-> [json |-> "object", first |-> 1, prev |-> page - 1]]

\* the items of page `page` of a listing
Slice(rows, page) ==
    SubSeq(rows, (page - 1) * PageSize + 1, Min(page * PageSize, Len(rows)))

\* the body of page `page` of a listing of rows
PageOf(rows, page, shape) ==
    [domain_records |-> Slice(rows, page),
     links |-> LinksOf(page, Len(rows), shape)]

\* the domains of the account, as the provider lists them
ListedDomains ==
    << [name |-> <<"unit.tests">>], [name |-> <<"other.com">>],
       [name |-> <<"sub.unit.tests">>], [name |-> <<"something.farm">>],
       [name |-> <<"example.org">>] >>

\* what a listing of the domains may be served from
DomainSnapshots == {<<>>, ListedDomains}

\* the body of page `page` of a listing of domains
DomainsPageOf(doms, page, shape) ==
    [domains |-> Slice(doms, page),
     links |-> LinksOf(page, Len(doms), shape)]

NoExc == [kind |-> "none", status |-> 0]

\* the TypeError of subscripting a value that is no mapping
TypeError == [kind |-> "TypeError", status |-> 0]

\* the exception _request raises for a status, NoExc for none
request_exc(status) ==
    IF status = 401 THEN [kind |-> "Unauthorized", status |-> 401]
    ELSE IF status = 404 THEN [kind |-> "NotFound", status |-> 404]
    ELSE IF status >= 400 /\ status < 600 THEN [kind |-> "HTTPError", status |-> status]
    ELSE NoExc

\* the requests, as _request receives them
GetDomain(name) == [method |-> "GET", path |-> "/domains/{name}", name |-> name]
PostDomain(name) ==
    [method |-> "POST", path |-> "/domains",
     data |-> [name |-> name, ip_address |-> SentinelIP]]
GetDomains(page) == [method |-> "GET", path |-> "/domains", page |-> page]
GetRecords(name, page) ==
    [method |-> "GET", path |-> "/domains/{name}/records", name |-> name, page |-> page]
PostRecord(name, params) ==
    [method |-> "POST", path |-> "/domains/{name}/records", name |-> name, data |-> params]
DeleteRecord(name, id) ==
    [method |-> "DELETE", path |-> "/domains/{name}/records/{id}", name |-> name, id |-> id]

-----------------------------------------------------------------------------
(* DigitalOceanClient.records, zone_records, populate and the change
   applicators, as operators on the values they read *)

\* links['pages']['last']: the value is found, or the lookup raises
\* KeyError, or TypeError when pages is no mapping
Marker(links) ==
    IF "pages" \notin DOMAIN links THEN "KeyError"
    ELSE IF links.pages.json # "object" THEN "TypeError"
    ELSE IF "last" \notin DOMAIN links.pages THEN "KeyError"
    ELSE "last"

\* try: links['pages']['last']; page += 1
HasLast(links) == Marker(links) = "last"

\* a faulty variant: the items of the pages before are dropped
NextPage_drop(rd, items) == [rd EXCEPT !.page = @ + 1, !.ret = items]

\* ret += data[...]; page += 1
NextPage(rd, items) == [rd EXCEPT !.page = @ + 1, !.ret = @ \o items]

\* the place of a domain name in the order of sorted()
Rank(name) ==
    CASE name[1] = "example.org" -> 1
      [] name[1] = "other.com" -> 2
      [] name[1] = "something.farm" -> 3
      [] name[1] = "sub.unit.tests" -> 4
      [] name[1] = "unit.tests" -> 5

\* sorted([f'{d["name"]}.' for d in domains])
SortedZones(domains) ==
    SortSeq([i \in 1..Len(domains) |-> Dot(domains[i].name)],
            LAMBDA a, b : Rank(a) < Rank(b))

\* change any apex record to empty string
ApexName(record) ==
    IF record.name = "@" THEN [record EXCEPT !.name = ""] ELSE record

\* change any apex value to zone name
ApexData(record, zone_name) ==
    IF record.data = <<"@">> THEN [record EXCEPT !.data = zone_name] ELSE record

\* the loop over ret that ends DigitalOceanClient.records
Normalise(ret, zone_name) ==
    [i \in 1..Len(ret) |-> ApexData(ApexName(ret[i]), zone_name)]

\* a faulty variant: the params are submitted as the translator made them
CreateParams_raw(params) == params

\* change empty name string to @, DO uses @ for apex record names
CreateParams(params) ==
    IF params.name = "" THEN [params EXCEPT !.name = "@"] ELSE params

\* a faulty variant: the listing is returned and not kept
CacheStore_none(cch, zone_name, rows) == cch

\* self._zone_records[zone.name] = ...
CacheStore(cch, zone_name, rows) == (zone_name :> rows) @@ cch

\* a faulty variant: the entry is left in the cache
CachePop_none(cch, zone_name) == cch

\* self._zone_records.pop(desired.name, None)
CachePop(cch, zone_name) == [z \in DOMAIN cch \ {zone_name} |-> cch[z]]

\* a faulty variant: a row of an unsupported type is translated as a row of
\* plain values
Populated_all(rows) ==
    LET keys == {<<rows[i].name, rows[i].type>> : i \in 1..Len(rows)}
    IN {NewRecord(k[1],
            LET group == SelectSeq(rows, LAMBDA r : r.name = k[1] /\ r.type = k[2])
            IN IF k[2] \in SUPPORTS THEN data_for(k[2], group)
               ELSE data_for_multiple(k[2], group)) : k \in keys}

\* the records populate adds to the zone from the rows zone_records returned
Populated(rows) ==
    LET sup == SelectSeq(rows, LAMBDA r : r.type \in SUPPORTS)
        keys == {<<sup[i].name, sup[i].type>> : i \in 1..Len(sup)}
    IN {NewRecord(k[1], data_for(k[2],
            SelectSeq(sup, LAMBDA r : r.name = k[1] /\ r.type = k[2]))) : k \in keys}

\* a faulty variant: the apex is looked for under the name the provider gives it
BootstrapDeletes_at(records) ==
    LET hit == SelectSeq(records, LAMBDA r : r.name = "@" /\ r.type = "A")
    IN [i \in 1..Len(hit) |-> [kind |-> "delete", id |-> hit[i].id]]

\* a faulty variant: every row of the apex is deleted, whatever its type
BootstrapDeletes_apex(records) ==
    LET hit == SelectSeq(records, LAMBDA r : r.name = "")
    IN [i \in 1..Len(hit) |-> [kind |-> "delete", id |-> hit[i].id]]

\* the deletions domain_create issues for the listing of the new domain
BootstrapDeletes(records) ==
    LET hit == SelectSeq(records, LAMBDA r : r.name = "" /\ r.type = "A")
    IN [i \in 1..Len(hit) |-> [kind |-> "delete", id |-> hit[i].id]]

\* a faulty variant: the values of a record are submitted in one creation
apply_Create_batched(change) ==
    IF change.new.type = "CNAME"
    THEN << [kind |-> "create", params |-> params_for(change.new)[1]] >>
    ELSE << [kind |-> "create",
             params |-> [data |-> change.new.values, name |-> change.new.name,
                         ttl |-> change.new.ttl, type |-> change.new.type]] >>

\* one record_create per params of the new record
apply_Create(change) ==
    LET ps == params_for(change.new)
    IN [i \in 1..Len(ps) |-> [kind |-> "create", params |-> ps[i]]]

\* a faulty variant: every row of the existing type is deleted, whatever its name
apply_Delete_type(change, rows) ==
    LET hit == SelectSeq(rows, LAMBDA r : change.existing.type = r.type)
    IN [i \in 1..Len(hit) |-> [kind |-> "delete", id |-> hit[i].id]]

\* one record_delete per row of zone_records with the existing name and type
apply_Delete(change, rows) ==
    LET hit == SelectSeq(rows, LAMBDA r : change.existing.name = r.name
                                       /\ change.existing.type = r.type)
    IN [i \in 1..Len(hit) |-> [kind |-> "delete", id |-> hit[i].id]]

\* a faulty variant: the new values are created before the old rows are deleted
apply_Update_create_first(change, rows) ==
    apply_Create(change) \o apply_Delete(change, rows)

apply_Update(change, rows) == apply_Delete(change, rows) \o apply_Create(change)

\* getattr(self, f'_apply_{class_name}')(change), rows being what
\* zone_records returns (a Create does not call it)
apply_change(change, rows) ==
    CASE change.class = "Create" -> apply_Create(change)
      [] change.class = "Delete" -> apply_Delete(change, rows)
      [] change.class = "Update" -> apply_Update(change, rows)

-----------------------------------------------------------------------------
(* Control: where a call goes on once a request has been answered *)

NoReader == [for |-> "none", page |-> 0, ret |-> <<>>]
NoResult == [exc |-> [kind |-> "running", status |-> 0], exists |-> FALSE, records |-> {},
             zones |-> <<>>]
OkResult == [exc |-> NoExc, exists |-> FALSE, records |-> {}, zones |-> <<>>]

\* the call goes on at pc `at` with the given locals
Continue(at, i, reqs, scn, cch, rd) ==
    [pc |-> at, cur |-> i, todo |-> reqs, scans |-> scn, cache |-> cch,
     reader |-> rd, result |-> NoResult]

\* a faulty variant: a record request that fails is skipped and _apply carries on
Raise_carry_on(exc) ==
    IF pc = "record"
    THEN (IF Len(todo) > 1
          THEN Continue(pc, cur, Tail(todo), scans, cache, NoReader)
          ELSE Continue("changes", cur + 1, <<>>, scans, cache, NoReader))
    ELSE [pc |-> "idle", cur |-> cur, todo |-> <<>>, scans |-> scans,
          cache |-> cache, reader |-> NoReader,
          result |-> [exc |-> exc, exists |-> FALSE, records |-> {},
                      zones |-> <<>>]]

\* a faulty variant: the cache entry of the zone is popped when the call raises
Raise_pop(exc) ==
    [pc |-> "idle", cur |-> cur, todo |-> <<>>, scans |-> scans,
     cache |-> [z \in DOMAIN cache \ {ZoneName} |-> cache[z]],
     reader |-> NoReader,
     result |-> [exc |-> exc, exists |-> FALSE, records |-> {}, zones |-> <<>>]]

\* the call ends, raising exc to its caller
Raise(exc) ==
    [pc |-> "idle", cur |-> cur, todo |-> <<>>, scans |-> scans, cache |-> cache,
     reader |-> NoReader,
     result |-> [exc |-> exc, exists |-> FALSE, records |-> {}, zones |-> <<>>]]

\* a faulty variant: a zone without rows is reported as not existing
PopulateReturn_nonempty(rows, cch) ==
    [pc |-> "idle", cur |-> 0, todo |-> <<>>, scans |-> <<>>, cache |-> cch,
     reader |-> NoReader,
     result |-> [exc |-> NoExc, exists |-> rows # <<>>,
                 records |-> Populated(rows), zones |-> <<>>]]

\* populate ends: rows is what zone_records returned
PopulateReturn(rows, cch) ==
    [pc |-> "idle", cur |-> 0, todo |-> <<>>, scans |-> <<>>, cache |-> cch,
     reader |-> NoReader,
     result |-> [exc |-> NoExc, exists |-> ZoneName \in DOMAIN cch,
                 records |-> Populated(rows), zones |-> <<>>]]

\* list_zones ends: domains is what DigitalOceanClient.domains returned
ListZonesReturn(domains) ==
    [pc |-> "idle", cur |-> 0, todo |-> <<>>, scans |-> <<>>, cache |-> cache,
     reader |-> NoReader,
     result |-> [exc |-> NoExc, exists |-> FALSE, records |-> {},
                 zones |-> SortedZones(domains)]]

\* the loop of _apply is at its head, before change i
LoopHead(i, cch, scn) == Continue("changes", i, <<>>, scn, cch, NoReader)

\* change i, a Delete or an Update, once zone_records has returned rows
AfterScan(change, i, rows, cch, scn) ==
    LET reqs == apply_change(change, rows)
        scn2 == [scn EXCEPT ![i] = rows]
    IN IF reqs = <<>> THEN LoopHead(i + 1, cch, scn2)
       ELSE Continue("record", i, reqs, scn2, cch, NoReader)

\* the loop of _apply takes change i: a Create needs no rows, a Delete or
\* an Update asks zone_records for them, which lists the zone if it is not
\* cached
TakeChange(change, i, cch, scn) ==
    IF change.class = "Create"
    THEN Continue("record", i, apply_change(change, <<>>), scn, cch, NoReader)
    ELSE IF ZoneName \in DOMAIN cch
    THEN AfterScan(change, i, cch[ZoneName], cch, scn)
    ELSE Continue("list", i, <<>>, scn, cch,
                  [for |-> "change", page |-> 1, ret |-> <<>>])

\* the loop is over: the cache entry of the zone is popped and _apply returns
ApplyReturn(cch) ==
    [pc |-> "idle", cur |-> cur, todo |-> <<>>, scans |-> scans,
     cache |-> CachePop(cch, ZoneName), reader |-> NoReader, result |-> OkResult]

\* a faulty variant: the loop does not move on to the next change
AfterRecord_stuck ==
    IF Len(todo) > 1
    THEN Continue(pc, cur, Tail(todo), scans, cache, NoReader)
    ELSE IF pc = "bootstrap_delete" THEN LoopHead(1, cache, scans)
    ELSE LoopHead(cur, cache, scans)

\* a faulty variant: a row that was deleted is taken out of the cache entry
AfterRecord_evict ==
    LET cch == IF Head(todo).kind = "delete" /\ ZoneName \in DOMAIN cache
               THEN [cache EXCEPT ![ZoneName] =
                        SelectSeq(@, LAMBDA r : r.id # Head(todo).id)]
               ELSE cache
    IN IF Len(todo) > 1
       THEN Continue(pc, cur, Tail(todo), scans, cch, NoReader)
       ELSE IF pc = "bootstrap_delete" THEN LoopHead(1, cch, scans)
       ELSE LoopHead(cur + 1, cch, scans)

\* a record request of the running loop was answered without error
AfterRecord ==
    IF Len(todo) > 1
    THEN Continue(pc, cur, Tail(todo), scans, cache, NoReader)
    ELSE IF pc = "bootstrap_delete" THEN LoopHead(1, cache, scans)
    ELSE LoopHead(cur + 1, cache, scans)

\* the listing of DigitalOceanClient.records is complete: the rows are
\* normalised and returned to zone_records or to domain_create
AfterListing(ret) ==
    LET rows == Normalise(ret, DomainName(ZoneName))
    IN CASE reader.for = "populate" ->
              PopulateReturn(rows, CacheStore(cache, ZoneName, rows))
         [] reader.for = "change" ->
              AfterScan(plan[cur], cur, rows, CacheStore(cache, ZoneName, rows), scans)
         [] reader.for = "bootstrap" ->
              IF BootstrapDeletes(rows) = <<>>
              THEN LoopHead(1, cache, scans)
              ELSE Continue("bootstrap_delete", 0, BootstrapDeletes(rows), scans,
                            cache, NoReader)

\* a faulty variant: the empty list of a zone that was not found is cached
ListingRaised_cached(exc) ==
    IF exc.kind = "NotFound" /\ reader.for = "populate"
    THEN PopulateReturn(<<>>, CacheStore(cache, ZoneName, <<>>))
    ELSE IF exc.kind = "NotFound" /\ reader.for = "change"
    THEN AfterScan(plan[cur], cur, <<>>, CacheStore(cache, ZoneName, <<>>), scans)
    ELSE Raise(exc)

\* a faulty variant: domain_create too takes a zone that was not found for an empty one
ListingRaised_swallowed(exc) ==
    IF exc.kind = "NotFound" /\ reader.for = "populate"
    THEN PopulateReturn(<<>>, cache)
    ELSE IF exc.kind = "NotFound" /\ reader.for = "change"
    THEN AfterScan(plan[cur], cur, <<>>, cache, scans)
    ELSE IF exc.kind = "NotFound" /\ reader.for = "bootstrap"
    THEN LoopHead(1, cache, scans)
    ELSE Raise(exc)

\* the listing raised exc: zone_records turns NotFound into an empty list
\* that is not cached; domain_create lets it through
ListingRaised(exc) ==
    IF exc.kind = "NotFound" /\ reader.for = "populate"
    THEN PopulateReturn(<<>>, cache)
    ELSE IF exc.kind = "NotFound" /\ reader.for = "change"
    THEN AfterScan(plan[cur], cur, <<>>, cache, scans)
    ELSE Raise(exc)

\* a faulty variant: whatever the GET of the domain raises, the domain is created
AfterDomain_any(exc) ==
    IF exc = NoExc THEN LoopHead(1, cache, scans)
    ELSE Continue("domain_create", 0, <<>>, scans, cache, NoReader)

\* the answer to the GET of the domain in _apply
AfterDomain(exc) ==
    IF exc = NoExc THEN LoopHead(1, cache, scans)
    ELSE IF exc.kind = "NotFound"
    THEN Continue("domain_create", 0, <<>>, scans, cache, NoReader)
    ELSE Raise(exc)

Goto(k) ==
    /\ pc' = k.pc
    /\ cur' = k.cur
    /\ todo' = k.todo
    /\ scans' = k.scans
    /\ cache' = k.cache
    /\ reader' = k.reader
    /\ result' = k.result

\* an exchange: the request, the change it was issued for, the status of
\* the response and, for a page of a listing, the items and the links in it
Log(req, status, items, links) ==
    [req |-> req, chg |-> cur, status |-> status, items |-> items,
     links |-> links]

-----------------------------------------------------------------------------
(* The calls: populate and _apply, one action per request *)

RtIdle == [stage |-> "idle", g |-> <<>>, wire |-> <<>>, back |-> <<>>]
NoPrev == [op |-> "none", exc |-> "none", exists |-> FALSE, records |-> {}]

Init ==
    /\ cache = <<>>
    /\ pc = "idle"
    /\ op = "none"
    /\ plan = <<>>
    /\ cur = 0
    /\ todo = <<>>
    /\ scans = <<>>
    /\ reader = NoReader
    /\ listing = <<>>
    /\ calls = <<>>
    /\ result = NoResult
    /\ prev = NoPrev
    /\ rt = RtIdle

\* a call starts: what is kept of the call before it
Called(name, changes) ==
    /\ pc = "idle"
    /\ op' = name
    /\ plan' = changes
    /\ calls' = <<>>
    /\ prev' = [op |-> op, exc |-> result.exc.kind, exists |-> result.exists,
                 records |-> result.records]

\* populate(zone) is called: a cached zone is served at once, else
\* zone_records starts the listing
Populate ==
    /\ Called("populate", <<>>)
    /\ Goto(IF ZoneName \in DOMAIN cache
            THEN PopulateReturn(cache[ZoneName], cache)
            ELSE Continue("list", 0, <<>>, <<>>, cache,
                          [for |-> "populate", page |-> 1, ret |-> <<>>]))
    /\ UNCHANGED <<listing, rt>>

\* _apply(plan) is called.  The changes of the plan are drawn as the loop
\* reaches them: plan holds those the loop has taken.
Apply ==
    /\ Called("apply", <<>>)
    /\ Goto(Continue("domain", 0, <<>>, <<>>, cache, NoReader))
    /\ UNCHANGED <<listing, rt>>

\* for change in changes: the next change of the plan
Change(change) ==
    /\ pc = "changes"
    /\ Len(plan) < MaxChanges
    /\ plan' = Append(plan, change)
    /\ Goto(TakeChange(change, cur, cache, Append(scans, <<>>)))
    /\ UNCHANGED <<op, listing, calls, prev, rt>>

\* for change in changes: the plan has no further change
Applied ==
    /\ pc = "changes"
    /\ Goto(ApplyReturn(cache))
    /\ UNCHANGED <<op, plan, listing, calls, prev, rt>>

\* self._client.domain(domain_name)
Domain(fault) ==
    /\ pc = "domain"
    /\ LET status == Status(fault, "GET")
       IN /\ calls' = Append(calls, Log(GetDomain(DomainName(ZoneName)), status, <<>>, <<>>))
          /\ Goto(AfterDomain(request_exc(status)))
    /\ UNCHANGED <<op, plan, listing, prev, rt>>

\* domain_create: the POST of the domain with the placeholder address
DomainCreate(fault) ==
    /\ pc = "domain_create"
    /\ LET status == Status(fault, "POST")
           exc == request_exc(status)
       IN /\ calls' = Append(calls, Log(PostDomain(DomainName(ZoneName)), status, <<>>, <<>>))
          /\ Goto(IF exc # NoExc THEN Raise(exc)
                  ELSE Continue("list", 0, <<>>, scans, cache,
                                [for |-> "bootstrap", page |-> 1, ret |-> <<>>]))
    /\ UNCHANGED <<op, plan, listing, prev, rt>>

\* DigitalOceanClient.records: the GET of one page, and what follows the
\* last page.  The provider serves page 1 from rows of its choice and the
\* pages after it from the same rows.
Records(fault, rows, shape) ==
    /\ pc = "list"
    /\ (reader.page > 1 \/ fault # "none") => rows = listing
    /\ fault # "none" => shape = "object"
    /\ LET status == Status(fault, "GET")
           exc == request_exc(status)
           body == PageOf(rows, reader.page, shape)
           more == exc = NoExc /\ HasLast(body.links)
       IN /\ calls' = Append(calls,
                 Log(GetRecords(DomainName(ZoneName), reader.page), status,
                     IF exc = NoExc THEN body.domain_records ELSE <<>>,
                     IF exc = NoExc THEN body.links ELSE <<>>))
          /\ listing' = IF more THEN rows ELSE <<>>
          /\ Goto(IF exc # NoExc THEN ListingRaised(exc)
                  ELSE IF Marker(body.links) = "TypeError"
                  THEN ListingRaised(TypeError)
                  ELSE IF more
                  THEN Continue("list", cur, todo, scans, cache,
                                NextPage(reader, body.domain_records))
                  ELSE AfterListing(reader.ret \o body.domain_records))
    /\ UNCHANGED <<op, plan, prev, rt>>

\* list_zones() is called: DigitalOceanClient.domains starts the listing
ListZones ==
    /\ Called("list_zones", <<>>)
    /\ Goto(Continue("list_domains", 0, <<>>, <<>>, cache,
                     [for |-> "list_zones", page |-> 1, ret |-> <<>>]))
    /\ UNCHANGED <<listing, rt>>

\* DigitalOceanClient.domains: the GET of one page, and what follows the
\* last page
Domains(fault, doms, shape) ==
    /\ pc = "list_domains"
    /\ (reader.page > 1 \/ fault # "none") => doms = listing
    /\ fault # "none" => shape = "object"
    /\ LET status == Status(fault, "GET")
           exc == request_exc(status)
           body == DomainsPageOf(doms, reader.page, shape)
           more == exc = NoExc /\ HasLast(body.links)
       IN /\ calls' = Append(calls,
                 Log(GetDomains(reader.page), status,
                     IF exc = NoExc THEN body.domains ELSE <<>>,
                     IF exc = NoExc THEN body.links ELSE <<>>))
          /\ listing' = IF more THEN doms ELSE <<>>
          /\ Goto(IF exc # NoExc THEN Raise(exc)
                  ELSE IF Marker(body.links) = "TypeError" THEN Raise(TypeError)
                  ELSE IF more
                  THEN Continue("list_domains", cur, todo, scans, cache,
                                NextPage(reader, body.domains))
                  ELSE ListZonesReturn(reader.ret \o body.domains))
    /\ UNCHANGED <<op, plan, prev, rt>>

\* record_delete, for a deletion of domain_create or of _apply_Delete
RecordDelete(fault) ==
    /\ pc \in {"bootstrap_delete", "record"}
    /\ Head(todo).kind = "delete"
    /\ LET status == Status(fault, "DELETE")
           exc == request_exc(status)
       IN /\ calls' = Append(calls,
                 Log(DeleteRecord(DomainName(ZoneName), Head(todo).id), status,
                     <<>>, <<>>))
          /\ Goto(IF exc # NoExc THEN Raise(exc)
                  ELSE AfterRecord)
    /\ UNCHANGED <<op, plan, listing, prev, rt>>

\* record_create, for a creation of _apply_Create
RecordCreate(fault) ==
    /\ pc = "record"
    /\ Head(todo).kind = "create"
    /\ LET status == Status(fault, "POST")
           exc == request_exc(status)
       IN /\ calls' = Append(calls,
                 Log(PostRecord(DomainName(ZoneName), CreateParams(Head(todo).params)),
                     status, <<>>, <<>>))
          /\ Goto(IF exc # NoExc THEN Raise(exc) ELSE AfterRecord)
    /\ UNCHANGED <<op, plan, listing, prev, rt>>

Next ==
    \/ Populate
    \/ Apply
    \/ ListZones
    \/ \E change \in Changes : Change(change)
    \/ Applied
    \/ \E fault \in Faults : Domain(fault)
    \/ \E fault \in Faults : DomainCreate(fault)
    \/ \E fault \in Faults, rows \in Snapshots, shape \in Shapes :
          Records(fault, rows, shape)
    \/ \E fault \in Faults, doms \in DomainSnapshots, shape \in Shapes :
          Domains(fault, doms, shape)
    \/ \E fault \in Faults : RecordDelete(fault)
    \/ \E fault \in Faults : RecordCreate(fault)

Spec == Init /\ [][Next]_vars

-----------------------------------------------------------------------------
(* The translators alone: a valid generic record is translated to wire
   params and the params, as rows, back to a generic record *)

Hosts == { <<"foo-1.unit.tests", ".">>, <<"unit.tests", ".">> }

\* the values a valid record of a type may hold; a TXT value has its
\* semicolons escaped
ValuesOf(type) ==
    CASE type = "A"    -> { <<"1.2.3.4">>, <<"1.2.3.5">> }
      [] type = "AAAA" -> { <<"2601:644:500:e210:62f8:1dff:feb8:947a">>, <<"::1">> }
      [] type = "NS"   -> Hosts
      [] type = "TXT"  -> { <<"v=spf1 -all">>,
                            <<"v=DKIM1", "\\", ";", "k=rsa", "\\", ";">>,
                            <<"k", "\\", "n", "\\", ";", "p">> }
      [] type = "CAA"  -> { [flags |-> 0, tag |-> "issue", value |-> <<"ca.unit.tests">>] }
      [] type = "MX"   -> { [preference |-> p, exchange |-> h] : p \in {10}, h \in Hosts }
      [] type = "SRV"  -> { [port |-> 30, priority |-> 10, weight |-> 20, target |-> h] :
                                h \in Hosts \cup { <<".">> } }

SeqsOf(S, n) == UNION {[1..m -> S] : m \in 1..n}

ValidRecords ==
    { [name |-> n, type |-> "CNAME", ttl |-> 300, value |-> h] :
         n \in {"", "www"}, h \in Hosts }
    \cup UNION { { [name |-> n, type |-> t, ttl |-> 300, values |-> vs] :
                     n \in {"", "www"}, vs \in SeqsOf(ValuesOf(t), MaxValues) } :
                 t \in SUPPORTS \ {"CNAME"} }

InitRT ==
    /\ cache = <<>>
    /\ pc = "idle"
    /\ op = "none"
    /\ plan = <<>>
    /\ cur = 0
    /\ todo = <<>>
    /\ scans = <<>>
    /\ reader = NoReader
    /\ listing = <<>>
    /\ calls = <<>>
    /\ result = NoResult
    /\ prev = NoPrev
    /\ rt \in {[stage |-> "generic", g |-> g, wire |-> <<>>, back |-> <<>>] :
                 g \in ValidRecords}

\* to-wire: the params _apply_Create would submit for the record
ToWire ==
    /\ rt.stage = "generic"
    /\ rt' = [rt EXCEPT !.stage = "wire", !.wire = params_for(rt.g)]
    /\ UNCHANGED <<cache, pc, op, plan, cur, todo, scans, reader, listing,
                   calls, result, prev>>

\* to-generic: the record populate would make of those rows
ToGeneric ==
    /\ rt.stage = "wire"
    /\ rt' = [rt EXCEPT !.stage = "back",
                        !.back = NewRecord(rt.wire[1].name,
                                           data_for(rt.wire[1].type, rt.wire))]
    /\ UNCHANGED <<cache, pc, op, plan, cur, todo, scans, reader, listing,
                   calls, result, prev>>

NextRT == ToWire \/ ToGeneric

SpecRT == InitRT /\ [][NextRT]_vars

-----------------------------------------------------------------------------
(* Reading the exchanges of a call *)

RecordsPath == "/domains/{name}/records"

IsListing(c)      == c.req.method = "GET" /\ c.req.path = RecordsPath
IsCreate(c)       == c.req.method = "POST" /\ c.req.path = RecordsPath
IsDelete(c)       == c.req.method = "DELETE"
IsDomainGet(c)    == c.req.method = "GET" /\ c.req.path = "/domains/{name}"
IsDomainCreate(c) == c.req.method = "POST" /\ c.req.path = "/domains"
IsDomainListing(c) == c.req.method = "GET" /\ c.req.path = "/domains"

\* the exchanges made for change i (0: while ensuring the domain)
CallsOf(i) == SelectSeq(calls, LAMBDA c : c.chg = i)

\* the positions of the exchanges that satisfy Test
Where(Test(_)) == {a \in 1..Len(calls) : Test(calls[a])}

\* the rows of a listing that name the apex and have type A, as the
\* provider sends them
IsApexA(row) == row.name \in {"@", ""} /\ row.type = "A"

\* change i has been applied in full
Completed(i) == i \in 1..Len(plan) /\ cur > i

-----------------------------------------------------------------------------
(* C1: _apply applies the changes in the order of the plan: the exchanges of
   a call of _apply are grouped by change, in plan order, and every exchange
   made for change i is a request of change i (a listing or a deletion of a
   row with the name and type of its existing record, for a Delete or an
   Update; a creation of a value of its new record, for a Create or an
   Update). *)

RequestOf(c, change) ==
    \/ /\ IsListing(c)
       /\ change.class \in {"Delete", "Update"}
    \/ /\ IsDelete(c)
       /\ change.class \in {"Delete", "Update"}
       /\ \E row \in Range(scans[c.chg]) :
            /\ row.id = c.req.id
            /\ row.type = change.existing.type
            /\ row.name = change.existing.name
    \/ /\ IsCreate(c)
       /\ change.class \in {"Create", "Update"}
       /\ c.req.data.type = change.new.type
       /\ c.req.data.ttl = change.new.ttl
       /\ c.req.data.name = (IF change.new.name = "" THEN "@" ELSE change.new.name)
       /\ IF change.new.type = "CNAME" THEN c.req.data.data = change.new.value
          ELSE c.req.data.data \in Range(change.new.values)

C1_PlanOrder ==
    op = "apply" =>
        /\ \A a, b \in 1..Len(calls) : a < b => calls[a].chg <= calls[b].chg
        /\ \A a \in 1..Len(calls) :
              calls[a].chg >= 1 =>
                 /\ calls[a].chg <= Len(plan)
                 /\ RequestOf(calls[a], plan[calls[a].chg])

\* two different changes were applied, each with requests of its own
C1_Witness ==
    /\ op = "apply" /\ pc = "idle" /\ result.exc = NoExc
    /\ Len(plan) = 2 /\ plan[1] # plan[2]
    /\ \E a, b \in 1..Len(calls) :
          a < b /\ calls[a].chg = 1 /\ IsDelete(calls[a])
                /\ calls[b].chg = 2 /\ IsCreate(calls[b])

-----------------------------------------------------------------------------
(* C2: domain bootstrap.  When the GET of the domain reports Not-Found, by
   the time _apply reaches its first change it has made, in this order and
   before any request of a change: the creation of the domain with the
   address 192.0.2.1, the listing of the zone's records page by page, and
   one deletion for each apex A row of that listing. *)

BootstrapItems == Flatten([a \in 1..Len(CallsOf(0)) |-> CallsOf(0)[a].items])

ApexAIds ==
    LET hit == SelectSeq(BootstrapItems, IsApexA)
    IN [a \in 1..Len(hit) |-> hit[a].id]

C2_Bootstrap ==
    (op = "apply" /\ cur >= 1 /\ calls[1].status = 404) =>
        LET boot == CallsOf(0)
            n == Len(boot) - Len(ApexAIds)   \* the last page of the listing
        IN /\ \A a \in 1..Len(boot) : calls[a] = boot[a]
           /\ IsDomainGet(boot[1])
           /\ n >= 3
           /\ IsDomainCreate(boot[2])
           /\ boot[2].req.data = [name |-> <<"unit.tests">>, ip_address |-> <<"192.0.2.1">>]
           /\ boot[2].status = 201
           /\ \A a \in 3..n : /\ IsListing(boot[a])
                              /\ boot[a].req.page = a - 2
                              /\ boot[a].status = 200
           /\ \A a \in 1..Len(ApexAIds) :
                 /\ IsDelete(boot[n + a])
                 /\ boot[n + a].req.id = ApexAIds[a]
                 /\ boot[n + a].status = 204

\* the domain was created, its placeholder row deleted, and a record of the
\* plan created after that
C2_Witness ==
    /\ op = "apply" /\ calls # <<>> /\ calls[1].status = 404
    /\ \E a, b \in 1..Len(calls) :
          /\ a < b
          /\ IsDelete(calls[a]) /\ calls[a].chg = 0 /\ calls[a].req.id = 6
          /\ IsCreate(calls[b]) /\ calls[b].status = 201

-----------------------------------------------------------------------------
(* C3: Update decomposition.  Once an Update has been applied in full, the
   exchanges made for it hold exactly one deletion per row that zone_records
   returned with the name and type of the existing record, in the order of
   those rows, and exactly one creation per value of the new record, in the
   order of the values; every deletion comes before every creation.  The
   rows zone_records returned are the rows of the cache entry of the zone. *)

MatchingIds(rows, record) ==
    LET hit == SelectSeq(rows, LAMBDA r : r.name = record.name /\ r.type = record.type)
    IN [a \in 1..Len(hit) |-> hit[a].id]

\* what is submitted to create a record with values (not a CNAME)
SubmittedFor(record) ==
    [a \in 1..Len(record.values) |->
        [data |-> record.values[a], ttl |-> record.ttl, type |-> record.type,
         name |-> IF record.name = "" THEN "@" ELSE record.name]]

C3_UpdateDecomposition ==
    op = "apply" =>
      \A i \in 1..Len(plan) :
        (plan[i].class = "Update" /\ Completed(i)) =>
          LET mine == SelectSeq(CallsOf(i), LAMBDA c : ~IsListing(c))
              dels == SelectSeq(mine, IsDelete)
              news == SelectSeq(mine, IsCreate)
          IN /\ mine = dels \o news
             /\ [a \in 1..Len(dels) |-> dels[a].req.id]
                   = MatchingIds(scans[i], plan[i].existing)
             /\ [a \in 1..Len(news) |-> news[a].req.data]
                   = SubmittedFor(plan[i].new)
             /\ (pc # "idle" /\ scans[i] # <<>>) =>
                   (ZoneName \in DOMAIN cache /\ cache[ZoneName] = scans[i])

\* an Update was applied that deleted two rows and created one value
C3_Witness ==
    /\ op = "apply"
    /\ \E i \in 1..Len(plan) :
          /\ plan[i].class = "Update" /\ Completed(i)
          /\ Len(SelectSeq(CallsOf(i), IsDelete)) = 2
          /\ Len(SelectSeq(CallsOf(i), IsCreate)) = 1

-----------------------------------------------------------------------------
(* C4: after a call of _apply that returns without error the cache holds no
   entry for the zone, whatever the plan was, and a populate called next
   does not answer from the cache: its first request is page 1 of the
   listing. *)

C4_ApplyInvalidates ==
    /\ (op = "apply" /\ pc = "idle" /\ result.exc = NoExc) =>
          ZoneName \notin DOMAIN cache
    /\ (op = "populate" /\ prev.op = "apply" /\ prev.exc = "none") =>
          /\ pc = "idle" => calls # <<>>
          /\ calls # <<>> =>
                calls[1].req = GetRecords(DomainName(ZoneName), 1)

\* the zone was cached by a populate, an _apply of a plan without changes
\* returned, and the cache entry is gone
C4_Witness ==
    /\ op = "apply" /\ pc = "idle" /\ result.exc = NoExc
    /\ prev.op = "populate" /\ prev.exists
    /\ plan = <<>>

-----------------------------------------------------------------------------
(* C5: cache idempotence.  A populate that lists the zone requests each
   page of the listing once, in order; a populate called right after a
   populate that found the zone (it reported the zone as existing, or
   yielded records) issues no request, raises nothing and yields the same
   records. *)

C5_CacheIdempotence ==
    /\ (op = "populate" /\ pc = "idle" /\ result.exc = NoExc) =>
          \A a \in 1..Len(calls) :
             calls[a].req = GetRecords(DomainName(ZoneName), a)
    /\ (op = "populate" /\ prev.op = "populate" /\ prev.exc = "none"
            /\ (prev.exists \/ prev.records # {})) =>
          /\ pc = "idle"
          /\ calls = <<>>
          /\ result.exc = NoExc
          /\ result.exists
          /\ result.records = prev.records

\* the second of two populates of a zone with records, right after the
\* first
C5_Witness ==
    /\ op = "populate" /\ pc = "idle"
    /\ prev.op = "populate" /\ prev.exists
    /\ Cardinality(result.records) >= 2

-----------------------------------------------------------------------------
(* C6: when the listing reports Not-Found, populate raises nothing, adds no
   record, reports that the zone does not exist and leaves no cache entry;
   a populate called next requests page 1 of the listing again. *)

C6_NotFoundNotCached ==
    /\ (op = "populate" /\ pc = "idle" /\ calls # <<>>
            /\ calls[Len(calls)].status = 404) =>
          /\ result.exc = NoExc
          /\ result.records = {}
          /\ ~result.exists
          /\ ZoneName \notin DOMAIN cache
    /\ (op = "populate" /\ prev.op = "populate" /\ prev.exc = "none" /\ ~prev.exists) =>
          /\ pc = "idle" => calls # <<>>
          /\ calls # <<>> =>
                calls[1].req = GetRecords(DomainName(ZoneName), 1)

\* a populate has listed the zone again after a populate whose listing
\* reported Not-Found
C6_Witness ==
    /\ op = "populate" /\ pc = "idle" /\ result.exists
    /\ prev.op = "populate" /\ prev.exc = "none" /\ ~prev.exists
    /\ calls # <<>>

-----------------------------------------------------------------------------
(* C7: Not-Found is swallowed only by zone_records and by the GET of the
   domain in _apply.  Every other failed request is the last of its call and
   is raised to the caller as it was: 401 as Unauthorized, 404 as NotFound,
   any other failure with its status; none of the three is raised that no
   request raised.  A populate that raises leaves no cache entry and adds no
   record. *)

Failed(c) == c.status >= 400

\* the two places that catch NotFound
Swallowed(c) ==
    /\ c.status = 404
    /\ \/ IsDomainGet(c)
       \/ IsListing(c) /\ (op = "populate" \/ c.chg >= 1)

RaisedFor(status) ==
    CASE status = 401 -> [kind |-> "Unauthorized", status |-> 401]
      [] status = 404 -> [kind |-> "NotFound", status |-> 404]
      [] OTHER -> [kind |-> "HTTPError", status |-> status]

C7_ErrorsPropagate ==
    /\ \A a \in 1..Len(calls) :
          (Failed(calls[a]) /\ ~Swallowed(calls[a])) =>
              /\ a = Len(calls)
              /\ pc = "idle"
              /\ result.exc = RaisedFor(calls[a].status)
    /\ (pc = "idle" /\ result.exc.kind \in {"Unauthorized", "NotFound", "HTTPError"}) =>
          /\ calls # <<>>
          /\ Failed(calls[Len(calls)]) /\ ~Swallowed(calls[Len(calls)])
    /\ (op = "populate" /\ pc = "idle" /\ result.exc # NoExc) =>
          /\ ZoneName \notin DOMAIN cache
          /\ result.records = {}
          /\ result.exc.kind \in {"Unauthorized", "HTTPError", "TypeError"}

\* _apply raised the NotFound of the listing that follows the creation of
\* the domain
C7_Witness ==
    /\ op = "apply" /\ pc = "idle" /\ result.exc.kind = "NotFound"
    /\ IsListing(calls[Len(calls)]) /\ calls[Len(calls)].chg = 0

-----------------------------------------------------------------------------
(* C8: a failed request aborts _apply and nothing is rolled back.  The
   failed request of change k is the last request of the call: the rest of
   change k is not issued, no later change is taken from the plan, and
   nothing is issued to undo what succeeded; _apply raises. *)

C8_AbortNoRollback ==
    op = "apply" =>
      \A a \in 1..Len(calls) :
        (Failed(calls[a]) /\ ~Swallowed(calls[a])) =>
            /\ \A b \in 1..Len(calls) : b <= a
            /\ pc = "idle"
            /\ result.exc.kind \in {"Unauthorized", "NotFound", "HTTPError"}
            /\ Len(plan) = calls[a].chg
            /\ cur = calls[a].chg

\* the creation of an Update failed after its two deletions had succeeded,
\* and _apply ended there
C8_Witness ==
    /\ op = "apply" /\ pc = "idle" /\ calls # <<>>
    /\ LET last == calls[Len(calls)]
       IN /\ IsCreate(last) /\ last.status = 502
          /\ plan[last.chg].class = "Update"
          /\ Len(SelectSeq(CallsOf(last.chg),
                           LAMBDA c : IsDelete(c) /\ c.status = 204)) = 2

-----------------------------------------------------------------------------
(* C10: apex symmetry.  No row that the reader returned (the cache, the rows
   zone_records gave a change) and no record of populate has the name "@":
   the reader returns the rows it was sent, in order, with the name "@"
   replaced by "" and every other name unchanged.  Every creation submits
   the name "@" for a record named "" and the record's own name
   otherwise. *)

Listed == Flatten([a \in 1..Len(calls) |-> calls[a].items])

C10_ApexSymmetry ==
    /\ \A z \in DOMAIN cache : \A k \in 1..Len(cache[z]) : cache[z][k].name # "@"
    /\ \A i \in 1..Len(scans) : \A k \in 1..Len(scans[i]) : scans[i][k].name # "@"
    /\ \A r \in result.records : r.name # "@"
    /\ (op = "populate" /\ pc = "idle" /\ result.exc = NoExc /\ result.exists
            /\ calls # <<>>) =>
          /\ Len(cache[ZoneName]) = Len(Listed)
          /\ \A k \in 1..Len(Listed) :
                cache[ZoneName][k].name =
                    (IF Listed[k].name = "@" THEN "" ELSE Listed[k].name)
    /\ \A a \in 1..Len(calls) :
          IsCreate(calls[a]) =>
              /\ calls[a].req.data.name # ""
              /\ calls[a].req.data.name =
                    (IF plan[calls[a].chg].new.name = "" THEN "@"
                     ELSE plan[calls[a].chg].new.name)

\* the cache holds an apex row under the name "", and an apex record and a
\* record of another name have been submitted for creation
C10_Witness ==
    /\ op = "apply"
    /\ ZoneName \in DOMAIN cache
    /\ \E k \in 1..Len(cache[ZoneName]) : cache[ZoneName][k].name = ""
    /\ \E a, b \in 1..Len(calls) :
          /\ IsCreate(calls[a]) /\ calls[a].req.data.name = "@"
          /\ IsCreate(calls[b]) /\ calls[b].req.data.name = "www"

-----------------------------------------------------------------------------
(* C9: round trip of the translators, to-generic(to-wire(g)) = g modulo the
   order of the values.  Under SpecRT. *)

SameGeneric(a, b) ==
    /\ a.name = b.name
    /\ a.type = b.type
    /\ a.ttl = b.ttl
    /\ IF a.type = "CNAME" THEN a.value = b.value
       ELSE SameModuloOrder(a.values, b.values)

\* C9 as the specification states it: for every supported type the record comes back as it was
C9_RoundTrip ==
    rt.stage = "back" => SameGeneric(rt.back, rt.g)

WithDot(host) == IF host = <<".">> THEN host ELSE host \o <<".">>

\* g with "." appended to its host names
Dotted(g) ==
    CASE g.type = "CNAME" -> [g EXCEPT !.value = @ \o <<".">>]
      [] g.type = "NS" ->
            [g EXCEPT !.values = [i \in 1..Len(@) |-> @[i] \o <<".">>]]
      [] g.type = "MX" ->
            [g EXCEPT !.values = [i \in 1..Len(@) |->
                                    [@[i] EXCEPT !.exchange = @ \o <<".">>]]]
      [] g.type = "SRV" ->
            [g EXCEPT !.values = [i \in 1..Len(@) |->
                                    [@[i] EXCEPT !.target = WithDot(@)]]]

(* C9 as amended: a record of type A, AAAA, CAA or TXT comes back as it
   was, modulo the order of the values.  A record of type CNAME, MX, NS or
   SRV comes back with "." appended to each host name it holds (value,
   exchange, values, target), an SRV target "." excepted, and is otherwise
   as it was: to-wire submits the host names with their trailing dot and
   to-generic appends one. *)
C9_RoundTripAmended ==
    rt.stage = "back" =>
        IF rt.g.type \in {"A", "AAAA", "CAA", "TXT"}
        THEN SameGeneric(rt.back, rt.g)
        ELSE SameGeneric(rt.back, Dotted(rt.g))

\* a TXT record of two values, one with escaped semicolons, has come back
C9_Witness ==
    /\ rt.stage = "back"
    /\ rt.g.type = "TXT"
    /\ Len(rt.g.values) = 2
    /\ \E i \in 1..2 : "\\" \in Range(rt.g.values[i])
    /\ \A j \in 1..Len(rt.wire) : "\\" \notin Range(rt.wire[j].data)
    /\ SameModuloOrder(rt.back.values, rt.g.values)

-----------------------------------------------------------------------------
(* C11: pagination completeness, for the reader of the records and the
   reader of the domains.  A reader requests the pages 1, 2, ... once each
   and in that order; it requests a further page exactly after a page that
   carries links.pages.last.  While it runs it holds the items of the pages
   read so far, in page order.  When page N omits the marker it returns the
   items of the N pages in page order: N x K items when every page holds
   K. *)

\* the exchanges of the reader that ran for change i (0: for populate, for
\* list_zones or for domain_create)
ReaderCalls(i) ==
    SelectSeq(calls, LAMBDA c : c.chg = i /\ (IsListing(c) \/ IsDomainListing(c)))

ItemsOf(rc) == Flatten([a \in 1..Len(rc) |-> rc[a].items])

\* the reader's last page was answered and omits the marker
ReadToEnd(rc) ==
    /\ rc # <<>>
    /\ rc[Len(rc)].status = 200
    /\ "pages" \notin DOMAIN rc[Len(rc)].links
       \/ (rc[Len(rc)].links.pages.json = "object"
             /\ "last" \notin DOMAIN rc[Len(rc)].links.pages)

IdsOf(rows) == [k \in 1..Len(rows) |-> rows[k].id]

C11_PaginationComplete ==
    /\ \A i \in 0..Len(plan) :
          LET rc == ReaderCalls(i)
          IN /\ \A a \in 1..Len(rc) : rc[a].req.page = a
             /\ \A a \in 1..(Len(rc) - 1) :
                   /\ rc[a].status = 200
                   /\ "pages" \in DOMAIN rc[a].links
                   /\ "last" \in DOMAIN rc[a].links.pages
             /\ (i >= 1 /\ ReadToEnd(rc)) => IdsOf(scans[i]) = IdsOf(ItemsOf(rc))
    /\ pc \in {"list", "list_domains"} =>
          LET rc == ReaderCalls(cur)
          IN /\ reader.page = Len(rc) + 1
             /\ reader.ret = ItemsOf(rc)
    /\ (op = "populate" /\ pc = "idle" /\ ReadToEnd(calls)) =>
          /\ result.exc = NoExc
          /\ IdsOf(cache[ZoneName]) = IdsOf(ItemsOf(calls))
          /\ (\A a \in 1..Len(calls) : Len(calls[a].items) = PageSize) =>
                Len(cache[ZoneName]) = Len(calls) * PageSize
    /\ (op = "list_zones" /\ pc = "idle" /\ ReadToEnd(calls)) =>
          /\ result.exc = NoExc
          /\ SameModuloOrder(result.zones,
                LET got == ItemsOf(calls)
                IN [k \in 1..Len(got) |-> got[k].name \o <<".">>])

\* populate has read two pages of PageSize rows each and holds them all
C11_Witness ==
    /\ op = "populate" /\ pc = "idle" /\ result.exc = NoExc
    /\ Len(calls) = 2
    /\ \A a \in 1..2 : Len(calls[a].items) = PageSize
    /\ Len(cache[ZoneName]) = 2 * PageSize

-----------------------------------------------------------------------------
(* C12: populate skips the rows of unsupported types and raises nothing for
   them.  A populate whose listing was read to its end, or that was served
   from the cache, ends without error; no record it adds has a type outside
   SUPPORTS, however many rows of such types the listing holds; and for
   every name and supported type of the listing it adds one record, holding
   one value per row of that name and type (one for a CNAME). *)

\* the rows zone_records returned to the populate that has ended
RowsPopulated == IF ZoneName \in DOMAIN cache THEN cache[ZoneName] ELSE <<>>

RowsOf(rows, name, type) ==
    SelectSeq(rows, LAMBDA r : r.name = name /\ r.type = type)

C12_UnsupportedSkipped ==
    (op = "populate" /\ pc = "idle" /\ (calls = <<>> \/ ReadToEnd(calls))) =>
        /\ result.exc = NoExc
        /\ \A r \in result.records : r.type \in SUPPORTS
        /\ \A k \in 1..Len(RowsPopulated) :
              LET row == RowsPopulated[k]
                  made == {r \in result.records :
                              r.name = row.name /\ r.type = row.type}
              IN IF row.type \in SUPPORTS
                 THEN /\ Cardinality(made) = 1
                      /\ \A r \in made :
                            /\ r.ttl = RowsOf(RowsPopulated, row.name, row.type)[1].ttl
                            /\ r.type # "CNAME" =>
                                  Len(r.values) =
                                      Len(RowsOf(RowsPopulated, row.name, row.type))
                 ELSE made = {}
        /\ \A r \in result.records :
              RowsOf(RowsPopulated, r.name, r.type) # <<>>

\* populate has ended on a listing that holds a row of an unsupported type
\* next to rows of supported types, and has added the records of those
C12_Witness ==
    /\ op = "populate" /\ pc = "idle" /\ result.exc = NoExc
    /\ \E k \in 1..Len(RowsPopulated) : RowsPopulated[k].type \notin SUPPORTS
    /\ \E r \in result.records : r.type = "A" /\ Len(r.values) = 2
    /\ \E r \in result.records : r.type = "NS" /\ r.name = ""

-----------------------------------------------------------------------------
(* C13: the exists flag of populate.  A populate that returns reports
   exists = TRUE exactly when the zone has a cache entry after the call:
   TRUE when its listing was read to the end, also when the listing holds no
   row, and when it was served from the cache; FALSE when its listing was
   answered Not-Found, and then there is no cache entry. *)

C13_ExistsFlag ==
    (op = "populate" /\ pc = "idle" /\ result.exc = NoExc) =>
        /\ result.exists = (ZoneName \in DOMAIN cache)
        /\ CASE calls = <<>> -> result.exists
             [] calls # <<>> /\ calls[Len(calls)].status = 404 ->
                   ~result.exists /\ result.records = {}
             [] OTHER -> ReadToEnd(calls) /\ result.exists

\* populate has listed a zone that holds no row and reports that it exists
C13_Witness ==
    /\ op = "populate" /\ pc = "idle" /\ result.exc = NoExc
    /\ ReadToEnd(calls)
    /\ ItemsOf(calls) = <<>>
    /\ result.exists
    /\ result.records = {}

-----------------------------------------------------------------------------
(* C14: the reader stops at any missing or unparseable marker.  A page that
   was answered and whose links hold no "pages", or "pages" without "last",
   or "pages" that is no mapping, is the last page its reader requests, and
   the reader returns the items accumulated so far: the call does not raise
   for it, and a populate holds those items in the cache.
   The code catches KeyError only: for "pages" that is no mapping the
   lookup raises TypeError, which ends the call. *)

\* the links of an answered page do not hold links.pages.last
NoMarker(c) ==
    /\ IsListing(c) \/ IsDomainListing(c)
    /\ c.status = 200
    /\ \/ "pages" \notin DOMAIN c.links
       \/ c.links.pages.json # "object"
       \/ "last" \notin DOMAIN c.links.pages

C14_MalformedMarkerStops ==
    /\ \A a \in 1..Len(calls) :
          NoMarker(calls[a]) =>
              /\ \A b \in (a + 1)..Len(calls) :
                    ~(calls[b].chg = calls[a].chg
                        /\ (IsListing(calls[b]) \/ IsDomainListing(calls[b])))
              /\ result.exc.kind # "TypeError"
    /\ (op = "populate" /\ pc = "idle" /\ calls # <<>>
            /\ NoMarker(calls[Len(calls)])) =>
          /\ result.exc = NoExc
          /\ ZoneName \in DOMAIN cache
          /\ IdsOf(cache[ZoneName]) = IdsOf(ItemsOf(calls))

-----------------------------------------------------------------------------
(* C15: a Delete change.  The requests made for a Delete, its listing by
   zone_records apart, are deletions only.  They name, in the order of the
   rows zone_records returned, the ids of the rows whose name and type are
   those of the existing record: a first part of them while the change is
   being applied or when a deletion failed, all of them once it has been
   applied.  No row of another name or another type is deleted.  The rows
   zone_records returned are the cache entry of the zone. *)

C15_DeleteScan ==
    op = "apply" =>
      \A i \in 1..Len(plan) :
        plan[i].class = "Delete" =>
          LET mine == SelectSeq(CallsOf(i), LAMBDA c : ~IsListing(c))
              want == MatchingIds(scans[i], plan[i].existing)
          IN /\ \A a \in 1..Len(mine) : IsDelete(mine[a])
             /\ Len(mine) <= Len(want)
             /\ \A a \in 1..Len(mine) : mine[a].req.id = want[a]
             /\ Completed(i) => Len(mine) = Len(want)
             /\ \A a \in 1..Len(mine) : \A k \in 1..Len(scans[i]) :
                   scans[i][k].id = mine[a].req.id =>
                       /\ scans[i][k].name = plan[i].existing.name
                       /\ scans[i][k].type = plan[i].existing.type
             /\ (pc # "idle" /\ scans[i] # <<>>) =>
                   (ZoneName \in DOMAIN cache /\ cache[ZoneName] = scans[i])

\* a Delete has been applied: of the four rows of the zone the two of its
\* name and type were deleted, in their order
C15_Witness ==
    /\ op = "apply"
    /\ \E i \in 1..Len(plan) :
          /\ plan[i].class = "Delete" /\ Completed(i)
          /\ Len(scans[i]) = 4
          /\ LET dels == SelectSeq(CallsOf(i), IsDelete)
             IN /\ Len(dels) = 2
                /\ dels[1].req.id = 2 /\ dels[2].req.id = 3
                /\ dels[2].status = 204

-----------------------------------------------------------------------------
(* C16: a Create change.  Every request made for a Create is a creation: it
   lists nothing and deletes nothing.  The creations submit, in the order of
   the values of the new record, one value each with the name, the type and
   the ttl of the record (one creation in all for a CNAME): a first part of
   them while the change is being applied or when a creation failed, all of
   them once it has been applied. *)

\* what is submitted to create a record: one params per value
CreationsOf(record) ==
    IF record.type = "CNAME"
    THEN << [data |-> record.value, ttl |-> record.ttl, type |-> record.type,
             name |-> IF record.name = "" THEN "@" ELSE record.name] >>
    ELSE SubmittedFor(record)

C16_CreatePerValue ==
    op = "apply" =>
      \A i \in 1..Len(plan) :
        plan[i].class = "Create" =>
          LET mine == CallsOf(i)
              want == CreationsOf(plan[i].new)
          IN /\ \A a \in 1..Len(mine) : IsCreate(mine[a])
             /\ Len(mine) <= Len(want)
             /\ \A a \in 1..Len(mine) : mine[a].req.data = want[a]
             /\ Completed(i) => Len(mine) = Len(want)
             /\ scans[i] = <<>>

\* a record of two values was created with two creations and a CNAME with
\* one
C16_Witness ==
    /\ op = "apply" /\ pc = "idle" /\ result.exc = NoExc
    /\ \E i, j \in 1..Len(plan) :
          /\ plan[i].class = "Create" /\ plan[i].new.type = "A"
          /\ Len(CallsOf(i)) = 2
          /\ CallsOf(i)[1].req.data.data = <<"1.2.3.4">>
          /\ CallsOf(i)[2].req.data.data = <<"1.2.3.5">>
          /\ plan[j].class = "Create" /\ plan[j].new.type = "CNAME"
          /\ Len(CallsOf(j)) = 1

-----------------------------------------------------------------------------
(* C17: the first request of every _apply is the GET of the domain, and it
   is the only GET of the domain of the call.  The domain is created if and
   only if that GET was answered Not-Found: then the creation of the domain
   is the next request of the call, and the call makes no other.  When the
   GET found the domain, nothing is requested before the first change: no
   creation of the domain, no listing and no deletion of a placeholder.
   When the GET failed otherwise, the call ends there with that failure and
   has made no other request. *)

C17_DomainFetchFirst ==
    op = "apply" =>
        /\ (pc # "domain") = (calls # <<>>)
        /\ calls # <<>> =>
              /\ IsDomainGet(calls[1])
              /\ \A a \in 2..Len(calls) : ~IsDomainGet(calls[a])
              /\ \A a \in 1..Len(calls) :
                    IsDomainCreate(calls[a]) => (a = 2 /\ calls[1].status = 404)
              /\ calls[1].status = 404 =>
                    IF Len(calls) = 1 THEN pc = "domain_create"
                    ELSE IsDomainCreate(calls[2])
              /\ calls[1].status = 200 =>
                    /\ Len(CallsOf(0)) = 1
                    /\ cur >= 1
              /\ calls[1].status \notin {200, 404} =>
                    /\ Len(calls) = 1
                    /\ pc = "idle"
                    /\ result.exc = RaisedFor(calls[1].status)

\* the domain was found and the first change was applied next, without a
\* creation of the domain
C17_Witness ==
    /\ op = "apply" /\ Len(calls) >= 2
    /\ IsDomainGet(calls[1]) /\ calls[1].status = 200
    /\ calls[2].chg = 1 /\ IsCreate(calls[2]) /\ calls[2].status = 201

-----------------------------------------------------------------------------
(* C18: the deletions of domain_create.  Every deletion made before the
   first change, that is while the domain is bootstrapped, names a row of
   the listing that followed the creation of the domain, and that row has
   the apex name and the type A; it is made after the last page of that
   listing.  No row of that listing with another name or another type is
   deleted at this stage, and no change of the plan has been taken yet. *)

C18_BootstrapFrame ==
    op = "apply" =>
        /\ cur = 0 => plan = <<>>
        /\ \A a \in 1..Len(calls) :
              (IsDelete(calls[a]) /\ calls[a].chg = 0) =>
                 /\ IsDomainCreate(calls[2]) /\ calls[2].status = 201
                 /\ \E k \in 1..Len(BootstrapItems) :
                       BootstrapItems[k].id = calls[a].req.id
                 /\ \A k \in 1..Len(BootstrapItems) :
                       BootstrapItems[k].id = calls[a].req.id =>
                          /\ BootstrapItems[k].name = "@"
                          /\ BootstrapItems[k].type = "A"
                 /\ \A b \in 1..Len(calls) :
                       (IsListing(calls[b]) /\ calls[b].chg = 0) => b < a
        /\ \A k \in 1..Len(BootstrapItems) :
              (BootstrapItems[k].name # "@" \/ BootstrapItems[k].type # "A") =>
                 \A a \in 1..Len(calls) :
                    (IsDelete(calls[a]) /\ calls[a].chg = 0) =>
                        calls[a].req.id # BootstrapItems[k].id

\* the domain was bootstrapped: the placeholder row was deleted and the NS
\* row of the apex, listed with it, was not
C18_Witness ==
    /\ op = "apply" /\ pc = "changes" /\ cur = 1
    /\ \E k \in 1..Len(BootstrapItems) :
          BootstrapItems[k].type = "NS" /\ BootstrapItems[k].name = "@"
    /\ LET dels == SelectSeq(CallsOf(0), IsDelete)
       IN /\ Len(dels) = 1
          /\ dels[1].req.id = 6
          /\ dels[1].status = 204

-----------------------------------------------------------------------------
(* C19: the SRV sentinel.  _data_for_SRV gives, for every row in its order,
   the target "." for the data "." and never "..", and the data followed by
   "." for any other data; port, priority and weight are those of the
   row.  Under SpecRT. *)

C19_SRVSentinel ==
    (rt.stage = "back" /\ rt.back.type = "SRV") =>
        /\ Len(rt.back.values) = Len(rt.wire)
        /\ \A i \in 1..Len(rt.wire) :
              /\ rt.back.values[i].target # <<".", ".">>
              /\ rt.back.values[i].target =
                    (IF rt.wire[i].data = <<".">> THEN <<".">>
                     ELSE rt.wire[i].data \o <<".">>)
              /\ rt.back.values[i].port = rt.wire[i].port
              /\ rt.back.values[i].priority = rt.wire[i].priority
              /\ rt.back.values[i].weight = rt.wire[i].weight

\* SRV rows with the data "." and with the data of a host were translated
C19_Witness ==
    /\ rt.stage = "back" /\ rt.back.type = "SRV"
    /\ Len(rt.wire) = 2
    /\ rt.wire[1].data = <<".">> /\ rt.back.values[1].target = <<".">>
    /\ rt.wire[2].data # <<".">>
    /\ rt.back.values[2].target = rt.wire[2].data \o <<".">>

-----------------------------------------------------------------------------
(* C20: TXT escaping.  _params_for_TXT submits each value of a TXT record
   without the backslash of every backslash-semicolon pair and otherwise
   unchanged, and _data_for_TXT gives back, value by value, the values the
   record had: nothing but the escaping backslashes is removed on the way
   out, and they are put back on the way in.  Under SpecRT. *)

\* the positions of s that are not the backslash of a backslash-semicolon
Kept(s) == {i \in 1..Len(s) : ~(s[i] = "\\" /\ i < Len(s) /\ s[i + 1] = ";")}

\* s without the backslashes that escape a semicolon
WithoutEscapes(s) ==
    LET at == SelectSeq([i \in 1..Len(s) |-> i], LAMBDA i : i \in Kept(s))
    IN [k \in 1..Len(at) |-> s[at[k]]]

C20_TXTEscaping ==
    (rt.stage \in {"wire", "back"} /\ rt.g.type = "TXT") =>
        /\ Len(rt.wire) = Len(rt.g.values)
        /\ \A i \in 1..Len(rt.wire) :
              rt.wire[i].data = WithoutEscapes(rt.g.values[i])
        /\ rt.stage = "back" => rt.back.values = rt.g.values

\* a value with an escaped semicolon and a backslash that escapes nothing
\* went out without the escaping backslash and came back as it was
C20_Witness ==
    /\ rt.stage = "back" /\ rt.g.type = "TXT"
    /\ rt.g.values[1] = <<"k", "\\", "n", "\\", ";", "p">>
    /\ rt.wire[1].data = <<"k", "\\", "n", ";", "p">>
    /\ rt.back.values[1] = rt.g.values[1]

-----------------------------------------------------------------------------
(* C21: a cache entry is the snapshot of one listing read to its end, and is
   never modified in place.  In every step: an entry that is kept is kept as
   it was, whatever was requested in the step (a deletion, a creation, a
   page); an entry appears only in the step that reads the last page of a
   listing of zone_records, every page of which was answered, and it then
   holds the rows of all the pages in page order, with the name "@"
   replaced by "" and the data "@" by the name of the domain.  So, within
   one _apply, a later Delete or Update is given the rows an earlier one
   was given, when those were of a listing that held rows. *)

\* a row as the reader returns it
ApexNormalised(row) ==
    [row EXCEPT !.name = IF @ = "@" THEN "" ELSE @,
                !.data = IF @ = <<"@">> THEN <<"unit.tests">> ELSE @]

\* the rows given to the Deletes and Updates of the running _apply are the
\* same from the first that was given any
SameRowsAgain ==
    op = "apply" =>
        \A i, j \in 1..Len(plan) :
            (i < j /\ plan[i].class \in {"Delete", "Update"}
                   /\ plan[j].class \in {"Delete", "Update"}
                   /\ scans[i] # <<>>) =>
                scans[j] = scans[i]

C21_CacheSnapshot ==
    [][ /\ \A z \in DOMAIN cache \cap DOMAIN cache' : cache'[z] = cache[z]
        /\ \A z \in DOMAIN cache' \ DOMAIN cache :
              /\ z = ZoneName
              /\ pc = "list" /\ reader.for \in {"populate", "change"}
              /\ LET rc == SelectSeq(calls', LAMBDA c : c.chg = cur /\ IsListing(c))
                 IN /\ ReadToEnd(rc)
                    /\ \A a \in 1..Len(rc) :
                          rc[a].status = 200 /\ rc[a].req.page = a
                    /\ cache'[z] = [k \in 1..Len(ItemsOf(rc)) |->
                                       ApexNormalised(ItemsOf(rc)[k])]
        /\ SameRowsAgain'
      ]_vars

\* a second Delete or Update of the same name and type has deleted the row
\* that the first had deleted, and the cache entry still holds that row
C21_Witness ==
    /\ op = "apply" /\ Len(plan) = 2
    /\ plan[1].class \in {"Delete", "Update"} /\ plan[2].class = "Delete"
    /\ ZoneName \in DOMAIN cache
    /\ \E k \in 1..Len(cache[ZoneName]) : cache[ZoneName][k].id = 2
    /\ \E a, b \in 1..Len(calls) :
          /\ IsDelete(calls[a]) /\ calls[a].chg = 1 /\ calls[a].req.id = 2
          /\ calls[a].status = 204
          /\ IsDelete(calls[b]) /\ calls[b].chg = 2 /\ calls[b].req.id = 2

-----------------------------------------------------------------------------
(* C22: the cache entry of a zone is removed only by an _apply that returns.
   In every step: an entry goes only in the step in which the loop of
   _apply finds no further change and _apply returns without error; a step
   in which a call raises keeps the entry.  From where an _apply has raised
   with the entry in the cache, a populate called next is served from that
   entry: it requests nothing, reports exists and leaves the entry as it
   is; and a Delete or an Update taken by an _apply while the entry is in
   the cache is given the rows of the entry without a listing, so that it
   may name a row that the _apply that raised had deleted. *)

Raised(res) == res.exc.kind \in {"Unauthorized", "NotFound", "HTTPError", "TypeError"}

C22_FailedApplyKeepsCache ==
    [][ /\ \A z \in DOMAIN cache \ DOMAIN cache' :
              /\ op = "apply" /\ pc = "changes"
              /\ pc' = "idle" /\ result'.exc = NoExc
              /\ plan' = plan /\ calls' = calls
        /\ (pc # "idle" /\ pc' = "idle" /\ Raised(result')) => cache' = cache
        /\ (pc = "idle" /\ op = "apply" /\ Raised(result)
              /\ ZoneName \in DOMAIN cache /\ op' = "populate") =>
              /\ pc' = "idle" /\ calls' = <<>>
              /\ result'.exc = NoExc /\ result'.exists
              /\ cache' = cache
        /\ (op = "apply" /\ pc = "changes" /\ ZoneName \in DOMAIN cache
              /\ Len(plan') = Len(plan) + 1
              /\ plan'[Len(plan')].class \in {"Delete", "Update"}) =>
              /\ pc' # "list"
              /\ scans'[Len(plan')] = cache[ZoneName]
              /\ calls' = calls
      ]_vars

\* an _apply raised; the populate called next was served from the cache,
\* which still holds the rows of the zone
C22_Witness ==
    /\ prev.op = "apply" /\ prev.exc = "HTTPError"
    /\ op = "populate" /\ pc = "idle" /\ calls = <<>>
    /\ result.exc = NoExc /\ result.exists
    /\ \E r \in result.records : r.name = "www" /\ r.type = "A"
    /\ \E k \in 1..Len(cache[ZoneName]) : cache[ZoneName][k].id = 2

=============================================================================
